---- MODULE Spec2Model ----
(***************************************************************************)
(* Coupon ingestion pipeline of kart-challenge (services/coupons) and the   *)
(* coupon validation query of services/orderfoodonline.                    *)
(*                                                                         *)
(* One file processor (handleGzFile / processFileOptimized), its worker    *)
(* goroutines, the batch and error channels, the cancellation context and  *)
(* the MongoDB-backed store (coupons collection, processed-files ledger).  *)
(***************************************************************************)
EXTENDS Integers, Sequences, FiniteSets, TLC

VARIABLES
    coupons,    \* the "coupons" collection: a set of [id, code, file, active]
    ledger,     \* the "processed-coupon-files" collection, in natural order
    cancelled,  \* ctx.Done() is closed
    jobs,       \* the (isAdd, fileName) pairs the watcher can dispatch
    h,          \* locals of the running handleGzFile / processFileOptimized
    pool,       \* per started run: batchChan, errorChan, the worker goroutines
    nextId,     \* source of fresh uuid.New() values
    faults,     \* storage and scanner errors injected so far
    hist,       \* of the latest run: what was enqueued, applied, dropped
                \* (ghost)
    query,      \* last answer of ValidateCouponCode: <<code, result>> or <<>>
    last,       \* last direct call of a store write: its arguments and the
                \* store before it (ghost)
    watch,      \* Run: its position, the events read, the files dispatched
    order       \* orderService.PlaceOrder: the last request and its outcome

vars == <<coupons, ledger, cancelled, jobs, h, pool, nextId, faults, hist,
          query, last, watch, order>>

----------------------------------------------------------------------------
(* Bounds of the model.                                                    *)

\* lines in every dispatched file
NumLines == 4
\* p.processorConfig.BatchSize (a configuration value; 5000 when unset)
BatchSize == 2
\* capacity of batchChan (10 in the source), scaled down
ChanCap == 1
\* runs of handleGzFile that reach processFileOptimized
MaxRuns == 2
\* errors the environment injects: failing batch calls, scanner errors
MaxFaults == 1

\* worker goroutines started per run
numWorkers == 4
\* make(chan error, 1)
errorChanCap == 1

Workers == 1..numWorkers

----------------------------------------------------------------------------
(* File contents and line handling.                                        *)

\* Text of line i of a file: every third line (2, 5, ...) is blank, the
\* others hold one code with surrounding white space; lines 4, 7, ... repeat
\* the code of the line before them.
LineText(i) ==
    IF i % 3 = 2 THEN <<" ", " ">>
    ELSE IF i % 3 = 1 /\ i > 1 THEN <<" ", ToString(i - 1), " ">>
    ELSE <<" ", ToString(i), " ">>

RECURSIVE TrimLeft(_)
TrimLeft(s) ==
    IF s = <<>> THEN <<>>
    ELSE IF Head(s) = " " THEN TrimLeft(Tail(s)) ELSE s

RECURSIVE TrimRight(_)
TrimRight(s) ==
    IF s = <<>> THEN <<>>
    ELSE IF s[Len(s)] = " " THEN TrimRight(SubSeq(s, 1, Len(s) - 1)) ELSE s

\* strings.TrimSpace
TrimSpace(s) == TrimRight(TrimLeft(s))

\* The non-empty trimmed lines of the file, as line numbers.
NonEmptyLines == {i \in 1..NumLines : TrimSpace(LineText(i)) # <<>>}

----------------------------------------------------------------------------
(* The coupon store (repository/coupon.go, orderfoodonline repository).    *)

\* the documents matching the filter {coupon_code: c, file_name: f}
Matching(S, f, c) == {r \in S : r.code = c /\ r.file = f}

\* of some documents, the first in natural (insertion) order
FirstDoc(M) == CHOOSE r \in M : \A x \in M : r.id <= x.id

\* $setOnInsert: a new document; its id (uuid.New()) is one no document of
\* (c, f) carries: documents are never deleted, so their number plus one
InsertDoc(S, f, c) ==
    S \cup {[id |-> Cardinality(Matching(S, f, c)) + 1,
              code |-> c, file |-> f, active |-> TRUE]}

\* $set isactive=true on one matched document (UpdateOne)
SetActive(S, f, c) ==
    LET r == FirstDoc(Matching(S, f, c))
    IN  (S \ {r}) \cup {[r EXCEPT !.active = TRUE]}

\* a faulty upsert: isactive is set on insert only ($setOnInsert)
UpsertInsertOnly(S, f, c) ==
    IF Matching(S, f, c) # {} THEN S ELSE InsertDoc(S, f, c)

\* a faulty upsert: the id is set on every upsert ($set), not on insert only
UpsertFreshId(S, f, c) ==
    IF Matching(S, f, c) # {}
    THEN LET r == FirstDoc(Matching(S, f, c))
         IN  (S \ {r}) \cup {[r EXCEPT !.active = TRUE, !.id = @ + 1]}
    ELSE InsertDoc(S, f, c)

\* One upsert of AddCoupons' bulk write: match on (coupon_code, file_name);
\* $set isactive=true on the matched document, or insert one.
Upsert(S, f, c) ==
    IF Matching(S, f, c) # {} THEN SetActive(S, f, c) ELSE InsertDoc(S, f, c)

RECURSIVE AddCoupons(_, _, _)
AddCoupons(S, f, codes) ==
    IF codes = <<>> THEN S
    ELSE AddCoupons(Upsert(S, f, Head(codes)), f, Tail(codes))

\* the codes of a bulk write whose filter matches no document of S
Missing(S, f, codes) ==
    {codes[i] : i \in {j \in 1..Len(codes) : Matching(S, f, codes[j]) = {}}}

\* AddCoupons when other clients write between the match of an upsert and
\* its write (no unique index covers the filter): the codes in missing were
\* matched against an earlier store and are inserted; the operations of one
\* bulk write run in order, so a code repeated in codes is inserted once.
RECURSIVE AddCouponsSeen(_, _, _, _)
AddCouponsSeen(S, f, codes, missing) ==
    IF codes = <<>> THEN S
    ELSE LET c == Head(codes)
         IN  IF c \in missing
             THEN AddCouponsSeen(InsertDoc(S, f, c), f, Tail(codes),
                                 missing \ {c})
             ELSE AddCouponsSeen(Upsert(S, f, c), f, Tail(codes), missing)

\* a faulty deactivation: the filter lacks file_name
DeactivateAnyFile(S, f, codes) ==
    {IF \E i \in 1..Len(codes) : codes[i] = r.code
     THEN [r EXCEPT !.active = FALSE] ELSE r : r \in S}

\* UpdateMany {file_name: f, coupon_code: {$in: codes}} $set isactive=false
DeactivateCoupons(S, f, codes) ==
    {IF r.file = f /\ (\E i \in 1..Len(codes) : codes[i] = r.code)
     THEN [r EXCEPT !.active = FALSE] ELSE r : r \in S}

\* a faulty match stage: the isactive condition is missing
ValidateMatchAnyState(S, c) == {r \in S : r.code = c}

\* $match {coupon_code: c, isactive: true}
ValidateMatch(S, c) == {r \in S : r.code = c /\ r.active}

\* $group {_id: "$file_name"}
ValidateGroup(M) == {r.file : r \in M}

\* $limit n: some n of the documents (all of them when there are fewer)
Limit(G, n) ==
    IF Cardinality(G) <= n THEN G
    ELSE CHOOSE T \in SUBSET G : Cardinality(T) = n

\* the cursor loop: count documents, answer true at the second one
RECURSIVE CursorLoop(_, _)
CursorLoop(docs, count) ==
    IF docs = {} THEN FALSE
    ELSE LET d == CHOOSE x \in docs : TRUE
         IN  IF count + 1 >= 2 THEN TRUE
             ELSE CursorLoop(docs \ {d}, count + 1)

ValidateCouponCode(S, c) ==
    CursorLoop(Limit(ValidateGroup(ValidateMatch(S, c)), 2), 0)

\* Of the positions I of the rows matching a filter, the first in natural
\* order; 0 when no row matches.
FirstIndex(I) ==
    IF I = {} THEN 0 ELSE CHOOSE i \in I : \A j \in I : i <= j

\* a faulty lookup: the filter lacks isadd
IsFileProcessedAnyDirection(L, isAdd, file) ==
    FirstIndex({i \in 1..Len(L) : L[i].file = file})

\* FindOne {isadd, file_name} without a sort: the first match in natural
\* (insertion) order; index of the record found, 0 for ErrNoDocuments
IsFileProcessed(L, isAdd, file) ==
    FirstIndex({i \in 1..Len(L) : L[i].isAdd = isAdd /\ L[i].file = file})

\* InsertOne
InsertProcessedFile(L, row) == Append(L, row)

\* UpdateOne {id} $set status, coupon_code_counts: the first matching row
UpdateProcessingStatus(L, id, status, total) ==
    LET i == FirstIndex({j \in 1..Len(L) : L[j].id = id})
    IN  IF i = 0 THEN L
        ELSE [L EXCEPT ![i] = [@ EXCEPT !.status = status, !.count = total]]

----------------------------------------------------------------------------
(* State of one run.                                                       *)

\* handleGzFile is not running
IdleH ==
    [pc |-> "idle", isAdd |-> TRUE, file |-> "", id |-> 0, resumeCount |-> 0,
     status |-> "", total |-> 0, lineNum |-> 0, codes |-> <<>>, run |-> 0]

\* batchChan, errorChan and the goroutines started by processFileOptimized;
\* prod: the handleGzFile call that started them has not returned
NewPool(isAdd, file) ==
    [isAdd |-> isAdd, file |-> file, prod |-> TRUE,
     chan |-> <<>>, closed |-> FALSE, err |-> <<>>,
     wpc |-> [w \in Workers |-> "recv"], wb |-> [w \in Workers |-> <<>>],
     wm |-> [w \in Workers |-> {}]]

\* the goroutines of a run are gone with their process
DeadPool(p) ==
    [isAdd |-> p.isAdd, file |-> p.file, prod |-> FALSE,
     chan |-> <<>>, closed |-> FALSE, err |-> <<>>,
     wpc |-> [w \in Workers |-> "done"], wb |-> [w \in Workers |-> <<>>],
     wm |-> [w \in Workers |-> {}]]

NewHist(run, id, isAdd, file, k) ==
    [run |-> run, id |-> id, isAdd |-> isAdd, file |-> file, resume |-> k,
     enq |-> {}, batches |-> <<>>,
     ok |-> {}, failed |-> {}, dropped |-> {}, final |-> "", count |-> 0,
     written |-> FALSE, live |-> FALSE, scanErr |-> FALSE,
     pub |-> 0, got |-> 0, lost |-> {}]

\* the latest run's record of what its workers did with some lines
Note(r, field, lines) ==
    IF r = hist.run THEN [hist EXCEPT ![field] = @ \cup lines] ELSE hist

\* line numbers of a batch
LinesOf(batch) == {batch[i].line : i \in 1..Len(batch)}

\* the codes of a batch, as passed to the store
CodesOf(batch) == [i \in 1..Len(batch) |-> batch[i].code]

\* What a ledger call made with ctx may return: success, or, once the
\* context is cancelled, the driver's context error.
LedgerCallOutcomes == IF cancelled THEN {TRUE, FALSE} ELSE {TRUE}

\* the coupon record an add file leaves for line l
RecordOf(file, l) ==
    [id |-> 1, code |-> TrimSpace(LineText(l)), file |-> file, active |-> TRUE]

\* the records a completed add file of that name has left
AddedBefore(file) == {RecordOf(file, l) : l \in NonEmptyLines}

\* no store write was called directly yet
NoCall == [op |-> "none", file |-> "", codes |-> <<>>, before |-> {}]

\* a file put into the add directory later
LaterJob == [isAdd |-> TRUE, file |-> "f2.gz"]

\* Run after its setup (lines 49-68): nothing listed, read or dispatched
NewWatch ==
    [pc |-> "scan add", addFiles |-> {}, removeFiles |-> {},
     events |-> <<>>, log |-> <<>>]

\* PlaceOrder was not called
NoOrder == [called |-> FALSE]

InitWith(J, S) ==
    /\ coupons = S
    /\ ledger = <<>>
    /\ cancelled = FALSE
    /\ jobs = J
    /\ h = IdleH
    /\ pool = <<>>
    /\ nextId = 1
    /\ faults = 0
    /\ hist = NewHist(0, 0, TRUE, "", 0)
    /\ query = <<>>
    /\ last = NoCall
    /\ watch = NewWatch
    /\ order = NoOrder

----------------------------------------------------------------------------
(* handleGzFile: ledger reconciliation, insert, deferred finalisation.     *)

\* lines 181-185: resume from a failed record with a positive count
IsResume(row) == row.status = "failed" /\ row.count > 0

\* lines 176-179: the file is skipped
IsSkipped(row) == row.status = "completed" \/ row.status = "initiated"

\* a faulty dispatch: handleGzFile is started without waiting for the
\* call before it to return
HandleStartAsync(job) ==
    /\ h.pc \notin {"stopped", "insert"}
    /\ job \in jobs
    /\ LET i == IsFileProcessed(ledger, job.isAdd, job.file)
           resume == i # 0 /\ IsResume(ledger[i])
       IN  /\ ~(i # 0 /\ IsSkipped(ledger[i]))
           /\ h' = [IdleH EXCEPT
                      !.pc = "insert",
                      !.isAdd = job.isAdd,
                      !.file = job.file,
                      !.id = IF resume THEN ledger[i].id ELSE nextId,
                      !.resumeCount = IF resume THEN ledger[i].count ELSE 0,
                      !.status = "failed"]
           /\ nextId' = IF resume THEN nextId ELSE nextId + 1
    /\ UNCHANGED <<coupons, ledger, cancelled, jobs, pool, faults, hist,
                   query, last, watch, order>>

\* lines 137-186, called from Run (lines 71-83), which waits for the call
\* to return: the lookup of the ledger record and what handleGzFile
\* decides from it
HandleStart(job) ==
    /\ h.pc = "idle"
    /\ job \in jobs
    /\ \E ok \in LedgerCallOutcomes :
         LET i == IsFileProcessed(ledger, job.isAdd, job.file)
             resume == i # 0 /\ IsResume(ledger[i])
         IN  IF ~ok \/ (i # 0 /\ IsSkipped(ledger[i]))
             THEN UNCHANGED vars
             ELSE /\ h' = [IdleH EXCEPT
                             !.pc = "insert",
                             !.isAdd = job.isAdd,
                             !.file = job.file,
                             !.id = IF resume THEN ledger[i].id ELSE nextId,
                             !.resumeCount =
                                 IF resume THEN ledger[i].count ELSE 0,
                             !.status = "failed"]
                  /\ nextId' = IF resume THEN nextId ELSE nextId + 1
                  /\ UNCHANGED <<coupons, ledger, cancelled, jobs, pool,
                                 faults, hist, query, last>>
                  /\ UNCHANGED <<watch, order>>

\* a faulty preflight: the error of the lookup is ignored and the file is
\* handled as one without a ledger record
PreflightErrorIgnored ==
    /\ h.pc = "idle"
    /\ jobs # {}
    /\ faults < MaxFaults
    /\ faults' = faults + 1
    /\ \E job \in jobs :
          h' = [IdleH EXCEPT !.pc = "insert", !.isAdd = job.isAdd,
                             !.file = job.file, !.id = nextId,
                             !.status = "failed"]
    /\ nextId' = nextId + 1
    /\ UNCHANGED <<coupons, ledger, cancelled, jobs, pool, hist, query, last>>
    /\ UNCHANGED <<watch, order>>

\* lines 141-171: open, stat, hash or the ledger lookup fails for a
\* dispatched file; the error is logged and handleGzFile returns
PreflightError ==
    /\ h.pc = "idle"
    /\ jobs # {}
    /\ faults < MaxFaults
    /\ faults' = faults + 1
    /\ UNCHANGED <<coupons, ledger, cancelled, jobs, h, pool, nextId, hist,
                   query, last>>
    /\ UNCHANGED <<watch, order>>

\* lines 194-198: gzip.NewReader rejects the file (invalid header); the
\* error is logged and handleGzFile returns
GzipHeaderError ==
    /\ h.pc = "insert"
    /\ faults < MaxFaults
    /\ faults' = faults + 1
    /\ h' = IdleH
    /\ UNCHANGED <<coupons, ledger, cancelled, jobs, pool, nextId, hist,
                   query, last>>
    /\ UNCHANGED <<watch, order>>

\* a faulty start: the workers are started but no ledger row is inserted
HandleInsertNoRow ==
    /\ h.pc = "insert"
    /\ Len(pool) < MaxRuns
    /\ ledger' = ledger
    /\ pool' = Append(pool, NewPool(h.isAdd, h.file))
    /\ hist' = NewHist(Len(pool) + 1, h.id, h.isAdd, h.file, h.resumeCount)
    /\ h' = [h EXCEPT !.pc = "scan", !.run = Len(pool) + 1]
    /\ UNCHANGED <<coupons, cancelled, jobs, nextId, faults, query, last>>
    /\ UNCHANGED <<watch, order>>

\* lines 210-223, then processFileOptimized starts its workers (251-279)
HandleInsert ==
    /\ h.pc = "insert"
    /\ Len(pool) < MaxRuns
    /\ \E ok \in LedgerCallOutcomes :
         ledger' = IF ok
                   THEN InsertProcessedFile(ledger,
                            [id |-> h.id, file |-> h.file, isAdd |-> h.isAdd,
                             status |-> "initiated", count |-> 0])
                   ELSE ledger
    /\ pool' = Append(pool, NewPool(h.isAdd, h.file))
    /\ hist' = NewHist(Len(pool) + 1, h.id, h.isAdd, h.file, h.resumeCount)
    /\ h' = [h EXCEPT !.pc = "scan", !.run = Len(pool) + 1]
    /\ UNCHANGED <<coupons, cancelled, jobs, nextId, faults, query, last>>
    /\ UNCHANGED <<watch, order>>

\* lines 221-223: InsertProcessedFile returns a storage error, which is
\* logged; the run goes on to processFileOptimized
HandleInsertError ==
    /\ h.pc = "insert"
    /\ Len(pool) < MaxRuns
    /\ ~cancelled
    /\ faults < MaxFaults
    /\ faults' = faults + 1
    /\ pool' = Append(pool, NewPool(h.isAdd, h.file))
    /\ hist' = NewHist(Len(pool) + 1, h.id, h.isAdd, h.file, h.resumeCount)
    /\ h' = [h EXCEPT !.pc = "scan", !.run = Len(pool) + 1]
    /\ UNCHANGED <<coupons, ledger, cancelled, jobs, nextId, query, last,
                   watch, order>>

\* lines 227-231: the deferred UpdateProcessingStatus(ctx, id, status, total)
HandleFinal ==
    /\ h.pc = "final"
    /\ \E ok \in LedgerCallOutcomes :
         /\ ledger' = IF ok
                      THEN UpdateProcessingStatus(ledger, h.id, h.status,
                                                  h.total)
                      ELSE ledger
         /\ hist' = [hist EXCEPT !.final = h.status, !.count = h.total,
                                  !.written = ok,
                                  !.live = \E w \in Workers :
                                              pool[h.run].wpc[w] # "done"]
    /\ pool' = [pool EXCEPT ![h.run].prod = FALSE]
    /\ h' = IdleH
    /\ UNCHANGED <<coupons, cancelled, jobs, nextId, faults, query, last>>
    /\ UNCHANGED <<watch, order>>

----------------------------------------------------------------------------
(* processFileOptimized: the producer.                                     *)

\* a faulty resume skip, off by one: the watermark line is read again
SkipLineBelow(lineNum, resumeCount) == resumeCount > 0 /\ lineNum < resumeCount

\* line 293: the resume skip
SkipLine(lineNum, resumeCount) == resumeCount > 0 /\ lineNum <= resumeCount

\* a faulty return: an error path returns 0 in place of the count reached
ReturnNoCount(status) ==
    [h EXCEPT !.pc = "final", !.status = status, !.codes = <<>>, !.lineNum = 0,
              !.total = IF status = "failed" THEN 0 ELSE @]

\* processFileOptimized returns; the deferred finaliser runs next
Return(status) ==
    [h EXCEPT !.pc = "final", !.status = status, !.codes = <<>>, !.lineNum = 0]

\* a faulty threshold: the batch is sent once it exceeds the batch size
BatchFullLate(codes) == Len(codes) > BatchSize

\* line 300: len(codes) >= batchSize
BatchFull(codes) == Len(codes) >= BatchSize

\* lines 291-300 and 317-322: one scanner.Scan(), or the end of the input
ProducerScan ==
    /\ h.pc = "scan"
    /\ IF h.lineNum < NumLines
       THEN LET n == h.lineNum + 1
                line == TrimSpace(LineText(n))
                keep == ~SkipLine(n, h.resumeCount) /\ line # <<>>
                codes == IF keep
                         THEN Append(h.codes, [line |-> n, code |-> line])
                         ELSE h.codes
            IN  h' = [h EXCEPT !.lineNum = n, !.codes = codes,
                               !.pc = IF keep /\ BatchFull(codes)
                                      THEN "send" ELSE "scan"]
       ELSE h' = [h EXCEPT !.pc = IF Len(h.codes) > 0 THEN "flush" ELSE "close"]
    /\ UNCHANGED <<coupons, ledger, cancelled, jobs, pool, nextId, faults, hist,
                   query, last>>
    /\ UNCHANGED <<watch, order>>

\* lines 317-319: the scanner stopped on an error (corrupt stream, long line)
ScanError ==
    /\ h.pc = "scan"
    /\ faults < MaxFaults
    /\ faults' = faults + 1
    /\ h' = Return("failed")
    /\ hist' = [hist EXCEPT !.scanErr = TRUE]
    /\ UNCHANGED <<coupons, ledger, cancelled, jobs, pool, nextId, query,
                   last>>
    /\ UNCHANGED <<watch, order>>

\* a faulty send: the channel takes a batch whatever it holds (no capacity)
ProducerEnqueueUnbounded ==
    /\ h.pc \in {"send", "flush"}
    /\ pool' = [pool EXCEPT ![h.run].chan = Append(@, h.codes)]
    /\ hist' = [hist EXCEPT !.enq = @ \cup LinesOf(h.codes),
                             !.batches = Append(@, h.codes)]
    /\ h' = [h EXCEPT !.total = @ + Len(h.codes), !.codes = <<>>,
                      !.pc = IF h.pc = "send" THEN "scan" ELSE "close"]
    /\ UNCHANGED <<coupons, ledger, cancelled, jobs, nextId, faults, query,
                   last>>
    /\ UNCHANGED <<watch, order>>

\* lines 303-305 and 324-325: case batchChan <- codes
ProducerEnqueue ==
    /\ h.pc \in {"send", "flush"}
    /\ Len(pool[h.run].chan) < ChanCap
    /\ pool' = [pool EXCEPT ![h.run].chan = Append(@, h.codes)]
    /\ hist' = [hist EXCEPT !.enq = @ \cup LinesOf(h.codes),
                             !.batches = Append(@, h.codes)]
    /\ h' = [h EXCEPT !.total = @ + Len(h.codes), !.codes = <<>>,
                      !.pc = IF h.pc = "send" THEN "scan" ELSE "close"]
    /\ UNCHANGED <<coupons, ledger, cancelled, jobs, nextId, faults, query,
                   last>>
    /\ UNCHANGED <<watch, order>>

\* lines 306-308 and 326-328: case err := <-errorChan
ProducerRecvErr ==
    /\ h.pc \in {"send", "flush"}
    /\ pool[h.run].err # <<>>
    /\ pool' = [pool EXCEPT ![h.run].err = Tail(@)]
    /\ hist' = [hist EXCEPT !.got = Head(pool[h.run].err)]
    /\ h' = Return("failed")
    /\ UNCHANGED <<coupons, ledger, cancelled, jobs, nextId, faults,
                   query, last>>
    /\ UNCHANGED <<watch, order>>

\* lines 309-310 and 329-330: case <-ctx.Done()
ProducerCancelled ==
    /\ h.pc \in {"send", "flush"}
    /\ cancelled
    /\ h' = Return("failed")
    /\ UNCHANGED <<coupons, ledger, cancelled, jobs, pool, nextId, faults, hist,
                   query, last>>
    /\ UNCHANGED <<watch, order>>

\* line 335: close(batchChan)
ProducerClose ==
    /\ h.pc = "close"
    /\ pool' = [pool EXCEPT ![h.run].closed = TRUE]
    /\ h' = [h EXCEPT !.pc = "wait"]
    /\ UNCHANGED <<coupons, ledger, cancelled, jobs, nextId, faults, hist,
                   query, last>>
    /\ UNCHANGED <<watch, order>>

\* a faulty drain: errorChan is not polled after wg.Wait()
ProducerWaitNoPoll ==
    /\ h.pc = "wait"
    /\ \A w \in Workers : pool[h.run].wpc[w] = "done"
    /\ pool' = pool
    /\ h' = Return("completed")
    /\ UNCHANGED <<coupons, ledger, cancelled, jobs, nextId, faults, hist,
                   query, last>>
    /\ UNCHANGED <<watch, order>>

\* lines 336-346 and 234-241: wg.Wait(), the last poll of errorChan, return
ProducerWait ==
    /\ h.pc = "wait"
    /\ \A w \in Workers : pool[h.run].wpc[w] = "done"
    /\ IF pool[h.run].err # <<>>
       THEN /\ pool' = [pool EXCEPT ![h.run].err = Tail(@)]
            /\ hist' = [hist EXCEPT !.got = Head(pool[h.run].err)]
            /\ h' = Return("failed")
       ELSE /\ pool' = pool
            /\ hist' = hist
            /\ h' = Return("completed")
    /\ UNCHANGED <<coupons, ledger, cancelled, jobs, nextId, faults,
                   query, last>>
    /\ UNCHANGED <<watch, order>>

----------------------------------------------------------------------------
(* The worker goroutines (lines 260-279) and processBatch (121-133).       *)

\* for codes := range batchChan
WorkerRecv(r, w) ==
    /\ pool[r].wpc[w] = "recv"
    /\ \/ /\ pool[r].chan # <<>>
          /\ pool' = [pool EXCEPT ![r].chan = Tail(@),
                                  ![r].wb[w] = Head(pool[r].chan),
                                  ![r].wpc[w] = "got"]
       \/ /\ pool[r].chan = <<>>
          /\ pool[r].closed
          /\ pool' = [pool EXCEPT ![r].wpc[w] = "done"]
    /\ UNCHANGED <<coupons, ledger, cancelled, jobs, h, nextId, faults, hist,
                   query, last>>
    /\ UNCHANGED <<watch, order>>

\* select { case <-ctx.Done(): return; default: ... }; in the default case
\* the store call starts and its upserts match against the current store
WorkerSelect(r, w) ==
    /\ pool[r].wpc[w] = "got"
    /\ IF cancelled
       THEN /\ pool' = [pool EXCEPT ![r].wpc[w] = "done", ![r].wb[w] = <<>>]
            /\ hist' = Note(r, "dropped", LinesOf(pool[r].wb[w]))
       ELSE /\ pool' = [pool EXCEPT
                          ![r].wpc[w] = "call",
                          ![r].wm[w] = IF pool[r].isAdd
                                       THEN Missing(coupons, pool[r].file,
                                                    CodesOf(pool[r].wb[w]))
                                       ELSE {}]
            /\ hist' = hist
    /\ UNCHANGED <<coupons, ledger, cancelled, jobs, h, nextId, faults, query,
                   last>>
    /\ UNCHANGED <<watch, order>>

\* a faulty processBatch: an empty batch is passed to the store as well
ProcessBatchCallAlways(isAdd, fileName, codes) ==
    [op |-> IF isAdd THEN "AddCoupons" ELSE "DeactivateCoupons",
     file |-> fileName, codes |-> codes]

\* processBatch (lines 124-133): the repository call made for a batch
ProcessBatchCall(isAdd, fileName, codes) ==
    IF Len(codes) = 0 THEN [op |-> "none", file |-> "", codes |-> <<>>]
    ELSE IF isAdd
         THEN [op |-> "AddCoupons", file |-> fileName, codes |-> codes]
         ELSE [op |-> "DeactivateCoupons", file |-> fileName, codes |-> codes]

\* processBatch: what it returns, given what the repository call returned
ProcessBatchResult(call, storeErr) ==
    IF call.op = "none" THEN "nil" ELSE storeErr

\* processBatch: the store after the repository call it makes has succeeded
ProcessBatch(S, isAdd, file, codes, missing) ==
    LET call == ProcessBatchCall(isAdd, file, codes)
    IN  IF call.op = "none" THEN S
        ELSE IF call.op = "AddCoupons"
             THEN AddCouponsSeen(S, call.file, call.codes, missing)
             ELSE DeactivateCoupons(S, call.file, call.codes)

\* the store call returned nil
WorkerCallOk(r, w) ==
    /\ pool[r].wpc[w] = "call"
    /\ coupons' = ProcessBatch(coupons, pool[r].isAdd, pool[r].file,
                               CodesOf(pool[r].wb[w]), pool[r].wm[w])
    /\ pool' = [pool EXCEPT ![r].wpc[w] = "recv", ![r].wb[w] = <<>>,
                            ![r].wm[w] = {}]
    /\ hist' = Note(r, "ok", LinesOf(pool[r].wb[w]))
    /\ UNCHANGED <<ledger, cancelled, jobs, h, nextId, faults, query, last>>
    /\ UNCHANGED <<watch, order>>

\* an errorChan that takes every error: the send never falls to default
PublishQueued(ch, e) == Append(ch, e)

\* a worker that fails without telling: nothing is sent to errorChan
PublishNothing(ch, e) == ch

\* lines 268-271: select { case errorChan <- err: default: } on a channel
\* of capacity errorChanCap; the error is dropped when the slot is taken
Publish(ch, e) == IF Len(ch) < errorChanCap THEN Append(ch, e) ELSE ch

\* what the latest run records of a worker's publish: the first error
\* that went into errorChan, and the workers whose error was dropped
NotePublish(r, w, H) ==
    IF r # hist.run THEN H
    ELSE IF Publish(pool[r].err, w) = pool[r].err
         THEN [H EXCEPT !.lost = @ \cup {w}]
         ELSE IF H.pub = 0 THEN [H EXCEPT !.pub = w] ELSE H

\* the store call returned an error (a storage error, or the context error
\* once ctx is cancelled): non-blocking publish to errorChan, then return
WorkerCallErr(r, w) ==
    /\ pool[r].wpc[w] = "call"
    /\ cancelled \/ faults < MaxFaults
    /\ faults' = IF cancelled THEN faults ELSE faults + 1
    /\ pool' = [pool EXCEPT ![r].wpc[w] = "done", ![r].wb[w] = <<>>,
                            ![r].wm[w] = {},
                            ![r].err = Publish(@, w)]
    /\ hist' = NotePublish(r, w, Note(r, "failed", LinesOf(pool[r].wb[w])))
    /\ UNCHANGED <<coupons, ledger, cancelled, jobs, h, nextId, query, last>>
    /\ UNCHANGED <<watch, order>>

----------------------------------------------------------------------------
(* The process: cancellation (SIGINT/SIGTERM) and the next start.          *)

Cancel ==
    /\ ~cancelled
    /\ cancelled' = TRUE
    /\ UNCHANGED <<coupons, ledger, jobs, h, pool, nextId, faults, hist,
                   query, last>>
    /\ UNCHANGED <<watch, order>>

\* a faulty event loop: Run also returns once a file has failed
RunReturnOnFailure ==
    /\ cancelled \/ hist.final = "failed"
    /\ h.pc = "idle"
    /\ h' = [IdleH EXCEPT !.pc = "stopped"]
    /\ UNCHANGED <<coupons, ledger, cancelled, jobs, pool, nextId, faults,
                   hist, query, last>>
    /\ UNCHANGED <<watch, order>>

\* a faulty shutdown: Run returns only after every worker has exited
RunReturnAfterWorkers ==
    /\ cancelled
    /\ h.pc = "idle"
    /\ \A r \in DOMAIN pool : \A w \in Workers : pool[r].wpc[w] = "done"
    /\ h' = [IdleH EXCEPT !.pc = "stopped"]
    /\ UNCHANGED <<coupons, ledger, cancelled, jobs, pool, nextId, faults,
                   hist, query, last>>
    /\ UNCHANGED <<watch, order>>

\* lines 89-90: case <-ctx.Done(): return nil
RunReturn ==
    /\ cancelled
    /\ h.pc = "idle"
    /\ h' = [IdleH EXCEPT !.pc = "stopped"]
    /\ UNCHANGED <<coupons, ledger, cancelled, jobs, pool, nextId, faults,
                   hist, query, last>>
    /\ UNCHANGED <<watch, order>>

\* Run has returned and the process ended; the service is started again
Restart ==
    /\ h.pc = "stopped"
    /\ h' = IdleH
    /\ cancelled' = FALSE
    /\ pool' = [r \in DOMAIN pool |-> DeadPool(pool[r])]
    /\ UNCHANGED <<coupons, ledger, jobs, nextId, faults, hist, query, last>>
    /\ UNCHANGED <<watch, order>>

\* another file is put into the add directory after a file has failed
\* (lines 77-81: a Create or Rename event)
LaterFile ==
    /\ hist.final = "failed"
    /\ LaterJob \notin jobs
    /\ jobs' = jobs \cup {LaterJob}
    /\ UNCHANGED <<coupons, ledger, cancelled, h, pool, nextId, faults, hist,
                   query, last>>
    /\ UNCHANGED <<watch, order>>

\* Run dispatches a file (startup scan or a create/rename event)
Dispatch == \E job \in jobs : HandleStart(job)

WorkersRecv == \E r \in DOMAIN pool : \E w \in Workers : WorkerRecv(r, w)

WorkersSelect == \E r \in DOMAIN pool : \E w \in Workers : WorkerSelect(r, w)

WorkersCallOk == \E r \in DOMAIN pool : \E w \in Workers : WorkerCallOk(r, w)

WorkersCallErr == \E r \in DOMAIN pool : \E w \in Workers : WorkerCallErr(r, w)

\* every step but those of cancellation
NextQuiet ==
    \/ Dispatch
    \/ PreflightError
    \/ GzipHeaderError
    \/ HandleInsert
    \/ HandleFinal
    \/ ProducerScan
    \/ ScanError
    \/ ProducerEnqueue
    \/ ProducerRecvErr
    \/ ProducerClose
    \/ ProducerWait
    \/ WorkersRecv
    \/ WorkersSelect
    \/ WorkersCallOk
    \/ WorkersCallErr

Next ==
    \/ NextQuiet
    \/ ProducerCancelled
    \/ Cancel
    \/ RunReturn
    \/ Restart

\* a file dropped into the add directory
AddJob == [isAdd |-> TRUE, file |-> "f1.gz"]

\* a file dropped into the remove directory, its codes added earlier
RemoveJob == [isAdd |-> FALSE, file |-> "f1.gz"]

\* the store a remove file meets: the records of the add file of its name,
\* one more record of that name, and a record of one of its codes under
\* another file name
StoreBeforeRemove ==
    AddedBefore(RemoveJob.file)
        \cup {[id |-> 1, code |-> <<"9">>, file |-> RemoveJob.file,
                active |-> TRUE],
               [id |-> 1, code |-> <<"1">>, file |-> "f2.gz", active |-> TRUE]}

Init ==
    \/ InitWith({AddJob}, {})
    \/ InitWith({RemoveJob}, StoreBeforeRemove)

Spec == Init /\ [][Next]_vars

\* the service while no SIGINT/SIGTERM arrives
SpecQuiet == Init /\ [][NextQuiet]_vars

\* a file name present in add/ and in remove/ when the service starts
InitBoth == InitWith({AddJob, RemoveJob}, {})

SpecBoth == InitBoth /\ [][NextQuiet]_vars

\* the same service when the ledger insert can fail on a storage error
NextInsert ==
    \/ NextQuiet
    \/ HandleInsertError

SpecInsert == Init /\ [][NextInsert]_vars

\* a step of the goroutine that runs handleGzFile, once the run has started
HandlerStep ==
    \/ HandleInsert
    \/ HandleFinal
    \/ ProducerScan
    \/ ProducerEnqueue
    \/ ProducerRecvErr
    \/ ProducerCancelled
    \/ ProducerClose
    \/ ProducerWait

\* a step of worker goroutine w of run r
WorkerStep(r, w) ==
    /\ r \in DOMAIN pool
    /\ \/ WorkerRecv(r, w)
       \/ WorkerSelect(r, w)
       \/ WorkerCallOk(r, w)
       \/ WorkerCallErr(r, w)

\* The Go scheduler runs every goroutine that can take a step, and a store
\* call returns.  The select of the event loop picks among its ready cases
\* at random, so its ctx.Done() case is taken when it is ready again and
\* again.
Fairness ==
    /\ WF_vars(HandlerStep)
    /\ \A r \in 1..MaxRuns : \A w \in Workers : WF_vars(WorkerStep(r, w))
    /\ SF_vars(RunReturn)

\* Run dispatches a file while the model has a run left for it
DispatchInBound ==
    /\ Len(pool) < MaxRuns
    /\ Dispatch

\* the service when a further file arrives after a failure, every dispatch
\* being one that can run
NextWatch ==
    \/ DispatchInBound
    \/ PreflightError
    \/ GzipHeaderError
    \/ HandleInsert
    \/ HandleFinal
    \/ ProducerScan
    \/ ScanError
    \/ ProducerEnqueue
    \/ ProducerRecvErr
    \/ ProducerClose
    \/ ProducerWait
    \/ WorkersRecv
    \/ WorkersSelect
    \/ WorkersCallOk
    \/ WorkersCallErr
    \/ ProducerCancelled
    \/ Cancel
    \/ RunReturn
    \/ LaterFile

SpecFair == InitWith({AddJob}, {}) /\ [][NextWatch]_vars /\ Fairness

----------------------------------------------------------------------------
(* The store on its own: the writer's two bulk operations and the order    *)
(* service's validation query, on a few files and codes.                   *)

\* longest code list of one store call
MaxCodes == 2

StoreFiles == {"f1.gz", "f2.gz", "f3.gz"}

StoreCodes == {<<"1">>, <<"3">>}

CodeLists == UNION {[1..n -> StoreCodes] : n \in 0..MaxCodes}

StoreAdd(f, codes) ==
    /\ coupons' = AddCoupons(coupons, f, codes)
    /\ query' = <<>>
    /\ last' = [op |-> "add", file |-> f, codes |-> codes, before |-> coupons]
    /\ UNCHANGED <<ledger, cancelled, jobs, h, pool, nextId, faults, hist>>
    /\ UNCHANGED <<watch, order>>

StoreDeactivate(f, codes) ==
    /\ coupons' = DeactivateCoupons(coupons, f, codes)
    /\ query' = <<>>
    /\ last' = [op |-> "deactivate", file |-> f, codes |-> codes,
                before |-> coupons]
    /\ UNCHANGED <<ledger, cancelled, jobs, h, pool, nextId, faults, hist>>
    /\ UNCHANGED <<watch, order>>

StoreValidate(c) ==
    /\ query' = <<c, ValidateCouponCode(coupons, c)>>
    /\ UNCHANGED <<coupons, ledger, cancelled, jobs, h, pool, nextId, faults,
                   hist, last>>
    /\ UNCHANGED <<watch, order>>

StoreAdds == \E f \in StoreFiles : \E codes \in CodeLists : StoreAdd(f, codes)

StoreDeactivates ==
    \E f \in StoreFiles : \E codes \in CodeLists : StoreDeactivate(f, codes)

StoreValidates == \E c \in StoreCodes : StoreValidate(c)

NextStore ==
    \/ StoreAdds
    \/ StoreDeactivates
    \/ StoreValidates

InitStore == InitWith({}, {})

SpecStore == InitStore /\ [][NextStore]_vars

----------------------------------------------------------------------------
(* Run on its own: the startup scan of the two directories and the event   *)
(* loop, with handleGzFile reduced to a log of its calls.                  *)

\* events read from w.Events
MaxEvents == 2

\* strings.HasSuffix
HasSuffix(s, suffix) ==
    /\ Len(s) >= Len(suffix)
    /\ SubSeq(s, Len(s) - Len(suffix) + 1, Len(s)) = suffix

\* strings.Contains
Contains(s, sub) ==
    \E i \in 1..(Len(s) - Len(sub) + 1) : SubSeq(s, i, i + Len(sub) - 1) = sub

\* filepath.Join(dir, name)
Join(dir, name) == dir \o <<"/">> \o name

\* cfg.CouponAddDirectoryPath and cfg.CouponRemoveDirectoryPath
AddDir == <<"/", "d", "/", "a", "d", "d">>

RemoveDir == <<"/", "d", "/", "r", "e", "m", "o", "v", "e">>

\* names a directory may hold
DirNames == {<<"a", ".", "g", "z">>, <<"b", ".", "t", "x", "t">>}

\* filepath.Glob(filepath.Join(dir, "*.gz")): the entries matching *.gz
Glob(dir, entries) ==
    {Join(dir, n) : n \in {x \in entries : HasSuffix(x, <<".", "g", "z">>)}}

\* for _, f := range files { p.handleGzFile(ctx, f, isAdd) }
RECURSIVE HandleAll(_, _, _)
HandleAll(log, files, isAdd) ==
    IF files = {} THEN log
    ELSE LET f == CHOOSE x \in files : TRUE
         IN  HandleAll(Append(log, [by |-> "scan", event |-> 0, path |-> f,
                                    isAdd |-> isAdd]),
                       files \ {f}, isAdd)

\* fsnotify operations (event.Op is a set of them)
EventOps ==
    {{"Create"}, {"Write"}, {"Remove"}, {"Rename"}, {"Chmod"},
     {"Create", "Write"}}

\* event.Name
EventNames ==
    {Join(AddDir, <<"a", ".", "g", "z">>),
     Join(AddDir, <<"b", ".", "t", "x", "t">>),
     Join(RemoveDir, <<"a", ".", "g", "z">>),
     <<"/", "d", "/", "a", ".", "g", "z">>}

\* lines 71-72: p.processExistingFiles(ctx, addDir, true)
WatchScanAdd ==
    /\ watch.pc = "scan add"
    /\ \E entries \in SUBSET DirNames :
          watch' = [watch EXCEPT
                      !.pc = "scan remove",
                      !.addFiles = entries,
                      !.log = HandleAll(@, Glob(AddDir, entries), TRUE)]
    /\ UNCHANGED <<coupons, ledger, cancelled, jobs, h, pool, nextId, faults,
                   hist, query, last, order>>

\* lines 73-74: p.processExistingFiles(ctx, removeDir, false)
WatchScanRemove ==
    /\ watch.pc = "scan remove"
    /\ \E entries \in SUBSET DirNames :
          watch' = [watch EXCEPT
                      !.pc = "loop",
                      !.removeFiles = entries,
                      !.log = HandleAll(@, Glob(RemoveDir, entries), FALSE)]
    /\ UNCHANGED <<coupons, ledger, cancelled, jobs, h, pool, nextId, faults,
                   hist, query, last, order>>

\* a faulty event filter: the operation of the event is not looked at
DispatchOfAnyOp(e, n) ==
    IF HasSuffix(e.name, <<".", "g", "z">>)
    THEN IF Contains(e.name, <<"/", "a", "d", "d", "/">>)
         THEN <<[by |-> "event", event |-> n, path |-> e.name,
                 isAdd |-> TRUE]>>
         ELSE IF Contains(e.name, <<"/", "r", "e", "m", "o", "v", "e", "/">>)
              THEN <<[by |-> "event", event |-> n, path |-> e.name,
                      isAdd |-> FALSE]>>
              ELSE <<>>
    ELSE <<>>

\* lines 78-86: the calls of handleGzFile made for event e, the n-th read
DispatchOf(e, n) ==
    IF e.op \cap {"Create", "Rename"} # {}
       /\ HasSuffix(e.name, <<".", "g", "z">>)
    THEN IF Contains(e.name, <<"/", "a", "d", "d", "/">>)
         THEN <<[by |-> "event", event |-> n, path |-> e.name,
                 isAdd |-> TRUE]>>
         ELSE IF Contains(e.name, <<"/", "r", "e", "m", "o", "v", "e", "/">>)
              THEN <<[by |-> "event", event |-> n, path |-> e.name,
                      isAdd |-> FALSE]>>
              ELSE <<>>
    ELSE <<>>

\* line 77: case event := <-w.Events
WatchEvent ==
    /\ watch.pc = "loop"
    /\ Len(watch.events) < MaxEvents
    /\ \E op \in EventOps : \E name \in EventNames :
          LET e == [op |-> op, name |-> name]
          IN  watch' = [watch EXCEPT
                          !.events = Append(@, e),
                          !.log = @ \o DispatchOf(e, Len(watch.events) + 1)]
    /\ UNCHANGED <<coupons, ledger, cancelled, jobs, h, pool, nextId, faults,
                   hist, query, last, order>>

\* lines 89-90: case <-ctx.Done(): return nil
WatchReturn ==
    /\ watch.pc = "loop"
    /\ cancelled
    /\ watch' = [watch EXCEPT !.pc = "returned"]
    /\ UNCHANGED <<coupons, ledger, cancelled, jobs, h, pool, nextId, faults,
                   hist, query, last, order>>

NextRun ==
    \/ WatchScanAdd
    \/ WatchScanRemove
    \/ WatchEvent
    \/ WatchReturn
    \/ Cancel

SpecRun == InitWith({}, {}) /\ [][NextRun]_vars

\* The event loop for any data directory.
\* p.processorConfig.DataDirectory: a plain one, and one that lies below a
\* directory named add
DataDirectories == {<<"/", "d">>, <<"/", "a", "d", "d", "/", "d">>}

\* line 49: fmt.Sprintf("%s/add", p.processorConfig.DataDirectory)
AddDirOf(root) == root \o <<"/", "a", "d", "d">>

\* line 50: fmt.Sprintf("%s/remove", p.processorConfig.DataDirectory)
RemoveDirOf(root) == root \o <<"/", "r", "e", "m", "o", "v", "e">>

\* event.Name: the watcher reports the entries of the two watched
\* directories (w.Add at lines 62 and 65)
EventNamesOf(root) ==
    {Join(dir, n) : dir \in {AddDirOf(root), RemoveDirOf(root)}, n \in DirNames}

\* Run after its setup and the startup scan of empty directories
NewWatchAt(root) ==
    [pc |-> "loop", root |-> root, addFiles |-> {}, removeFiles |-> {},
     events |-> <<>>, log |-> <<>>]

\* line 77: case event := <-w.Events, the directories being those of
\* watch.root
WatchRootEvent ==
    /\ watch.pc = "loop"
    /\ Len(watch.events) < MaxEvents
    /\ \E op \in EventOps : \E name \in EventNamesOf(watch.root) :
          LET e == [op |-> op, name |-> name]
          IN  watch' = [watch EXCEPT
                          !.events = Append(@, e),
                          !.log = @ \o DispatchOf(e, Len(watch.events) + 1)]
    /\ UNCHANGED <<coupons, ledger, cancelled, jobs, h, pool, nextId, faults,
                   hist, query, last, order>>

NextRoots ==
    \/ WatchRootEvent
    \/ WatchReturn
    \/ Cancel

InitRoots ==
    /\ coupons = {}
    /\ ledger = <<>>
    /\ cancelled = FALSE
    /\ jobs = {}
    /\ h = IdleH
    /\ pool = <<>>
    /\ nextId = 1
    /\ faults = 0
    /\ hist = NewHist(0, 0, TRUE, "", 0)
    /\ query = <<>>
    /\ last = NoCall
    /\ \E root \in DataDirectories : watch = NewWatchAt(root)
    /\ order = NoOrder

SpecRoots == InitRoots /\ [][NextRoots]_vars

----------------------------------------------------------------------------
(* processBatch on its own, called with any flag, file name and batch.     *)

BatchFiles == {"f1.gz", "f2.gz"}

\* what a repository call returns: nil or an error
StoreErrors == {"nil", "write failed"}

BatchCall(isAdd, f, codes, storeErr) ==
    LET call == ProcessBatchCall(isAdd, f, codes)
    IN  /\ coupons' = IF call.op # "none" /\ storeErr # "nil" THEN coupons
                      ELSE ProcessBatch(coupons, isAdd, f, codes,
                                        Missing(coupons, f, codes))
        /\ last' = [op |-> "batch", isAdd |-> isAdd, file |-> f,
                    codes |-> codes, before |-> coupons, call |-> call,
                    storeErr |-> storeErr,
                    ret |-> ProcessBatchResult(call, storeErr)]
        /\ UNCHANGED <<ledger, cancelled, jobs, h, pool, nextId, faults, hist,
                       query>>
        /\ UNCHANGED <<watch, order>>

BatchCalls ==
    \E isAdd \in BOOLEAN : \E f \in BatchFiles : \E codes \in CodeLists :
        \E storeErr \in StoreErrors : BatchCall(isAdd, f, codes, storeErr)

SpecBatch == InitStore /\ [][BatchCalls]_vars

----------------------------------------------------------------------------
(* orderService.PlaceOrder (services/orderfoodonline), with its three      *)
(* repositories answering as the environment decides.                      *)

\* items of one request
MaxItems == 2

\* Rule 1: a coupon code has 8 to 10 characters
MinCouponLen == 8

MaxCouponLen == 10

\* a code of n characters
CodeOfLen(n) == [i \in 1..n |-> "A"]

\* req.CouponCode
RequestCodes ==
    {<<>>, <<" ", " ">>,
     CodeOfLen(7), CodeOfLen(8), CodeOfLen(10), CodeOfLen(11),
     <<" ">> \o CodeOfLen(7) \o <<" ">>,
     <<" ">> \o CodeOfLen(10) \o <<" ">>}

ProductIds == {"", "p1", "p2"}

\* req.Items
RequestItems ==
    UNION {[1..n -> [id : ProductIds, qty : {0, 1}]] : n \in 0..MaxItems}

\* what the repositories answer
Environments ==
    [coupon : {"true", "false", "error"},
     product : [ProductIds \ {""} -> {"found", "nil", "error"}],
     persist : {"ok", "error"}]

\* the outcome of PlaceOrder: the repository calls made, the order returned
\* (<<>> for nil, else <<order>>) and the error ("nil" when none)
Outcome(calls, ord, err) == [calls |-> calls, order |-> ord, err |-> err]

\* a faulty length rule: the code is measured with its surrounding blanks
CouponLengthRaw(code) == Len(code)

\* line 32: len(strings.TrimSpace(req.CouponCode))
CouponLength(code) == Len(TrimSpace(code))

\* a faulty item check: the quantity is not looked at
ItemInvalidIdOnly(item) == item.id = ""

\* line 46: item.ProductID == "" || item.Quantity <= 0
ItemInvalid(item) == item.id = "" \/ item.qty <= 0

\* lines 45-63: the loop over req.Items from item i on, then the insert
RECURSIVE PlaceItems(_, _, _, _)
PlaceItems(req, env, i, calls) ==
    IF i > Len(req.items)
    THEN LET all == Append(calls, [op |-> "PlaceOrder", arg |-> req.items])
         IN  IF env.persist = "ok"
             THEN Outcome(all, <<[items |-> req.items]>>, "nil")
             ELSE Outcome(all, <<>>, "insert failed")
    ELSE LET item == req.items[i]
             find == Append(calls, [op |-> "FindProductByID", arg |-> item.id])
         IN  IF ItemInvalid(item)
             THEN Outcome(calls, <<>>, "invalid productId or quantity")
             ELSE IF env.product[item.id] = "error"
                  THEN Outcome(find, <<>>, "error fetching product by ID")
                  ELSE IF env.product[item.id] = "nil"
                       THEN Outcome(find, <<>>, "product not found: ")
                       ELSE PlaceItems(req, env, i + 1, find)

\* lines 28-64
PlaceOrder(req, env) ==
    LET validate == <<[op |-> "ValidateCouponCode", arg |-> req.coupon]>>
    IN  IF TrimSpace(req.coupon) # <<>>
        THEN IF CouponLength(req.coupon) < MinCouponLen
                \/ CouponLength(req.coupon) > MaxCouponLen
             THEN Outcome(<<>>, <<>>, "invalid promo code")
             ELSE IF env.coupon = "error"
                  THEN Outcome(validate, <<>>, "validation failed")
                  ELSE IF env.coupon = "false"
                       THEN Outcome(validate, <<>>, "invalid promo code")
                       ELSE PlaceItems(req, env, 1, validate)
        ELSE PlaceItems(req, env, 1, <<>>)

\* one call of PlaceOrder
PlaceOrderCall ==
    /\ ~order.called
    /\ \E code \in RequestCodes : \E items \in RequestItems :
          \E env \in Environments :
              LET req == [coupon |-> code, items |-> items]
              IN  order' = [called |-> TRUE, req |-> req, env |-> env,
                            out |-> PlaceOrder(req, env)]
    /\ UNCHANGED <<coupons, ledger, cancelled, jobs, h, pool, nextId, faults,
                   hist, query, last, watch>>

SpecOrder == InitWith({}, {}) /\ [][PlaceOrderCall]_vars

----------------------------------------------------------------------------
(* Properties.                                                             *)

\* files holding an active record of code c
ActiveFiles(S, c) == {r.file : r \in {x \in S : x.code = c /\ x.active}}

\* files holding any record of code c
AllFiles(S, c) == {r.file : r \in {x \in S : x.code = c}}

\* C1: ValidateCouponCode(c) answers true exactly when at least two distinct
\* file names have an active record of c.
C1_ValidateIffTwoActiveFiles ==
    query # <<>> =>
        (query[2] <=> Cardinality(ActiveFiles(coupons, query[1])) >= 2)

\* C1 witness: the answer is false for a code present in two or more files
\* and active in exactly one of them.
C1_Witness ==
    /\ query # <<>>
    /\ query[2] = FALSE
    /\ Cardinality(AllFiles(coupons, query[1])) >= 2
    /\ Cardinality(ActiveFiles(coupons, query[1])) = 1

\* C2: when a run ends failed because a store call failed, the recorded
\* count covers only codes of batches whose store call returned success.
C2_FailedCountOnlyCommitted ==
    (hist.final = "failed" /\ hist.failed # {} /\ ~cancelled) =>
        hist.count <= Cardinality(hist.ok)

\* no goroutine of any run holds or can still receive a batch
Quiescent ==
    \A r \in DOMAIN pool :
        /\ pool[r].chan = <<>>
        /\ \A w \in Workers : pool[r].wpc[w] \in {"recv", "done"}

\* C3: after a resumed run of an add file has ended completed and all work
\* has settled, every non-empty trimmed line of the file has an active
\* record under the file's name, as after one clean run.
C3_ResumeThenCompleteEqualsCleanRun ==
    (hist.resume > 0 /\ hist.final = "completed" /\ hist.isAdd /\ Quiescent)
        => \A l \in NonEmptyLines : RecordOf(hist.file, l) \in coupons

\* C4: every completed ledger row counts all non-empty trimmed lines of the
\* file.
C4_CompletedCountIsAllLines ==
    \A i \in 1..Len(ledger) :
        ledger[i].status = "completed" =>
            ledger[i].count = Cardinality(NonEmptyLines)

\* C5: the ledger holds at most one row for each (is_add, file_name) pair,
\* also once a failed record has been resumed.
C5_OneRowPerFile ==
    hist.resume > 0 =>
    \A i, j \in 1..Len(ledger) :
        (ledger[i].isAdd = ledger[j].isAdd /\ ledger[i].file = ledger[j].file)
            => i = j

\* C6: a run resumed from watermark k > 0 enqueues no line numbered <= k and
\* its workers pass none to the store, and when it completes it has enqueued
\* exactly the non-empty lines after the watermark.
C6_ResumeSkipsWatermark ==
    hist.resume > 0 =>
        /\ \A l \in hist.enq \cup hist.ok \cup hist.failed \cup hist.dropped :
              l > hist.resume
        /\ hist.final = "completed" =>
              hist.enq = {l \in NonEmptyLines : l > hist.resume}

\* C6 witness: a resumed run whose store call for lines after the watermark
\* returned.
C6_Witness ==
    /\ hist.resume > 0
    /\ hist.ok # {}
    /\ hist.final = "completed"

\* C7: while the ledger holds a completed or initiated row for
\* (is_add, file_name), handleGzFile never gets past reconciliation for that
\* file, so it writes nothing.
C7_SkipWhenCompletedOrInitiated ==
    [][(h.pc = "idle" /\ h'.pc # "idle") =>
          ~\E i \in 1..Len(ledger) :
              /\ ledger[i].isAdd = h'.isAdd
              /\ ledger[i].file = h'.file
              /\ IsSkipped(ledger[i])]_vars

\* C8: when handleGzFile has returned, no ledger row is left initiated.
C8_NeverLeftInitiated ==
    h.pc = "idle" => \A i \in 1..Len(ledger) : ledger[i].status # "initiated"

\* C9: a run finishes with status completed only when no worker dropped a
\* batch because of cancellation and every enqueued batch was applied by a
\* store call that returned success.
C9_CompletedOnlyIfAllApplied ==
    hist.final = "completed" =>
        (hist.dropped = {} /\ hist.enq \subseteq hist.ok)

\* C10: the final ledger status update is issued only after every worker of
\* the run has exited.
C10_FinalAfterWorkersExit ==
    h.pc = "final" => \A w \in Workers : pool[h.run].wpc[w] = "done"

\* C13: the coupon store holds at most one record for each (code, source
\* file name) pair, whatever the interleaving of the workers' store calls.
C13_AtMostOneRecordPerCodeAndFile ==
    \A r, q \in coupons : (r.code = q.code /\ r.file = q.file) => r = q

\* the ledger row a status update of the latest run applies to (0: none)
RowOfRun == FirstIndex({j \in 1..Len(ledger) : ledger[j].id = hist.id})

Listed(r, f, codes) ==
    r.file = f /\ \E i \in 1..Len(codes) : codes[i] = r.code

\* C12: after AddCoupons(f, codes) every code of codes has an active record
\* under f, also a code whose record had been deactivated; with an empty list
\* the store is unchanged.
C12_AddActivatesEveryCode ==
    last.op = "add" =>
        /\ \A i \in 1..Len(last.codes) :
              \E r \in coupons :
                  r.code = last.codes[i] /\ r.file = last.file /\ r.active
        /\ last.codes = <<>> => coupons = last.before

\* C12 witness: AddCoupons was called with a code whose record under the
\* file was inactive, and the record is active now.
C12_Witness ==
    /\ last.op = "add"
    /\ \E r \in last.before :
          /\ Listed(r, last.file, last.codes) /\ ~r.active
          /\ [r EXCEPT !.active = TRUE] \in coupons

\* C14: after DeactivateCoupons(f, codes) every record of f with a listed
\* code is inactive, no record was created, and every other record is as it
\* was before the call.
C14_DeactivateFrame ==
    last.op = "deactivate" =>
        /\ \A r \in coupons : Listed(r, last.file, last.codes) => ~r.active
        /\ \A r \in last.before :
              IF Listed(r, last.file, last.codes)
              THEN [r EXCEPT !.active = FALSE] \in coupons
              ELSE r \in coupons
        /\ Cardinality(coupons) = Cardinality(last.before)

\* C14 witness: DeactivateCoupons was called with a code that was active
\* under the file and under another file, and with a code the file never had.
C14_Witness ==
    /\ last.op = "deactivate"
    /\ \E r \in last.before : Listed(r, last.file, last.codes) /\ r.active
    /\ \E i \in 1..Len(last.codes) :
          Matching(last.before, last.file, last.codes[i]) = {}
    /\ \E r \in coupons :
          /\ r.file # last.file /\ r.active
          /\ \E i \in 1..Len(last.codes) : last.codes[i] = r.code

\* C15: AddCoupons(f, X) executed again on the store it has left gives that
\* same store: the same records with the same ids and active flags.
C15_AddIdempotent ==
    last.op = "add" => AddCoupons(coupons, last.file, last.codes) = coupons

\* C15 witness: AddCoupons(f, X) was executed on a store in which every code
\* of a non-empty X already had its active record, and left it as it was.
C15_Witness ==
    /\ last.op = "add"
    /\ last.codes # <<>>
    /\ \A i \in 1..Len(last.codes) :
          \E r \in last.before :
              r.code = last.codes[i] /\ r.file = last.file /\ r.active
    /\ coupons = last.before

\* C16: when the record found for (is_add, file_name) is failed with count
\* 0, the new run starts at line 1 and takes over the id of that record.
C16_FailedZeroReusesId ==
    h.pc = "insert" =>
        LET i == IsFileProcessed(ledger, h.isAdd, h.file)
        IN  (i # 0 /\ ledger[i].status = "failed" /\ ledger[i].count = 0)
                => (h.resumeCount = 0 /\ h.id = ledger[i].id)

\* C18: a call of handleGzFile whose preflight (open, stat, hash, ledger
\* lookup) fails returns with nothing written: no ledger row inserted or
\* updated, no coupon written, no run started.
C18_PreflightFailureWritesNothing ==
    [][(h.pc = "idle" /\ faults' # faults /\ pool' = pool)
          => (h'.pc = "idle" /\ ledger' = ledger /\ coupons' = coupons)]_vars

\* C18 witness: the preflight of the first dispatch has failed and the
\* ledger is still empty, no id was drawn and no run was started.
C18_Witness ==
    /\ faults > 0
    /\ h.pc = "idle"
    /\ nextId = 1
    /\ ledger = <<>>
    /\ pool = <<>>

\* C19: when a file that passed reconciliation cannot be decompressed (gzip
\* header) or scanned, handleGzFile returns leaving a ledger row of the file
\* with status failed; after a scanner error the row carries the count
\* reached.
C19_GzipOrScanErrorRecordsFailed ==
    [][/\ (h.pc = "insert" /\ h'.pc = "idle") =>
              \E i \in 1..Len(ledger') :
                  /\ ledger'[i].isAdd = h.isAdd /\ ledger'[i].file = h.file
                  /\ ledger'[i].status = "failed"
       /\ (h.pc = "final" /\ h'.pc = "idle" /\ hist.scanErr) =>
              \E i \in 1..Len(ledger') :
                  /\ ledger'[i].id = h.id
                  /\ ledger'[i].status = "failed"
                  /\ ledger'[i].count = h.total]_vars

\* the latest run is the first one of its file: no ledger row of the file
\* was written by another run
FirstRunOfFile ==
    /\ hist.run > 0
    /\ hist.resume = 0
    /\ \A i \in 1..Len(ledger) :
          (ledger[i].isAdd = hist.isAdd /\ ledger[i].file = hist.file)
              => ledger[i].id = hist.id

RunInProgress == h.pc \in {"scan", "send", "flush", "close", "wait", "final"}

\* C20: Run returns only when the cancellation handle has fired, and every
\* started run of a file, whatever fails in it, returns to the event loop,
\* where the files dispatched later are handled.
C20_FileErrorsNeverStopRun ==
    /\ [](h.pc = "stopped" => cancelled)
    /\ RunInProgress ~> (h.pc = "idle")

\* C20 witness: the run of one file has failed and the file put into the
\* directory afterwards has been processed to completion.
C20_Witness ==
    /\ \E i \in 1..Len(ledger) :
          ledger[i].file = AddJob.file /\ ledger[i].status = "failed"
    /\ hist.file = LaterJob.file
    /\ hist.final = "completed"
    /\ hist.ok = NonEmptyLines
    /\ RowOfRun # 0 /\ ledger[RowOfRun].status = "completed"

\* C21: once the cancellation handle has fired, Run returns (its only return
\* after setup, "return nil"), wherever it was: in the event loop, in a
\* dispatch, or in a run whose workers are blocked or have exited.
C21_CancelledRunReturns == cancelled ~> (h.pc = "stopped")

\* C21 witness: Run has returned after a run that was cancelled in a send:
\* a worker dropped its batch and exited, another is left blocked on the
\* channel, which was never closed.
C21_Witness ==
    /\ h.pc = "stopped"
    /\ hist.final = "failed"
    /\ hist.dropped # {}
    /\ ~pool[hist.run].closed
    /\ \E w \in Workers : pool[hist.run].wpc[w] = "done"
    /\ \E w \in Workers : pool[hist.run].wpc[w] = "recv"

\* C22: processBatch passes a non-empty batch of an add file to AddCoupons
\* and one of a remove file to DeactivateCoupons, with the file name and the
\* batch it was given, and returns what the store returned; an add never
\* deactivates and a remove never inserts or activates; for an empty batch
\* it calls nothing and returns nil.
C22_BatchGoesToTheRightOperation ==
    last.op = "batch" =>
        IF last.codes = <<>>
        THEN last.call.op = "none" /\ last.ret = "nil" /\ coupons = last.before
        ELSE /\ last.call.op =
                   (IF last.isAdd THEN "AddCoupons" ELSE "DeactivateCoupons")
             /\ last.call.file = last.file
             /\ last.call.codes = last.codes
             /\ last.ret = last.storeErr
             /\ last.storeErr # "nil" => coupons = last.before
             /\ (last.storeErr = "nil" /\ last.isAdd) =>
                   /\ coupons = AddCoupons(last.before, last.file, last.codes)
                   /\ \A r \in last.before : r.active => r \in coupons
             /\ (last.storeErr = "nil" /\ ~last.isAdd) =>
                   /\ coupons =
                        DeactivateCoupons(last.before, last.file, last.codes)
                   /\ \A r \in last.before : ~r.active => r \in coupons
                   /\ Cardinality(coupons) = Cardinality(last.before)

\* C22 witness: the batch of a remove file was passed on for a file that had
\* an active record of one of its codes, and the store call failed.
C22_Witness ==
    /\ last.op = "batch"
    /\ ~last.isAdd
    /\ \E r \in last.before : Listed(r, last.file, last.codes) /\ r.active
    /\ last.call.op = "DeactivateCoupons"
    /\ last.ret = "write failed"

\* the record r is one of file f whose code is a non-empty trimmed line
InFile(r, f) ==
    r.file = f /\ \E l \in NonEmptyLines : r.code = TrimSpace(LineText(l))

\* C23: once a remove file has been processed to completion and all work
\* has settled, exactly the records of its name with a code of the file are
\* inactive, every other record is as it was, and the ledger row
\* (is_add=false, name) is completed.
C23_RemoveDeactivatesExactlyItsCodes ==
    (~hist.isAdd /\ hist.final = "completed" /\ hist.written /\ Quiescent) =>
        /\ \A r \in StoreBeforeRemove :
              IF InFile(r, hist.file)
              THEN [r EXCEPT !.active = FALSE] \in coupons
              ELSE r \in coupons
        /\ Cardinality(coupons) = Cardinality(StoreBeforeRemove)
        /\ \E i \in 1..Len(ledger) :
              /\ ~ledger[i].isAdd /\ ledger[i].file = hist.file
              /\ ledger[i].status = "completed"

\* C24: with one file name in add/ and in remove/, rows of different
\* directions never share an id, and a file is skipped only on a completed
\* or initiated row of its own direction.
C24_DirectionsReconciledIndependently ==
    /\ \A i, j \in 1..Len(ledger) :
          ledger[i].isAdd # ledger[j].isAdd => ledger[i].id # ledger[j].id
    /\ \A job \in jobs :
          LET i == IsFileProcessed(ledger, job.isAdd, job.file)
          IN  i # 0 =>
                  (ledger[i].isAdd = job.isAdd /\ ledger[i].file = job.file)
    /\ (h.pc # "idle" /\ h.resumeCount > 0) =>
          \E i \in 1..Len(ledger) :
              /\ ledger[i].isAdd = h.isAdd /\ ledger[i].id = h.id
              /\ ledger[i].count = h.resumeCount

\* C24 witness: the add file of a name is recorded completed and the remove
\* file of the same name was not skipped: it has its own completed row.
C24_Witness ==
    \E i, j \in 1..Len(ledger) :
        /\ ledger[i].isAdd /\ ~ledger[j].isAdd
        /\ ledger[i].file = ledger[j].file
        /\ ledger[i].status = "completed" /\ ledger[j].status = "completed"
        /\ i < j

\* number of codes in a sequence of batches
RECURSIVE CodesIn(_)
CodesIn(batches) ==
    IF batches = <<>> THEN 0 ELSE Len(Head(batches)) + CodesIn(Tail(batches))

\* the batches the workers of run r have received and not finished with
HeldBatches(r) ==
    [w \in Workers |-> IF pool[r].wpc[w] \in {"got", "call"}
                       THEN pool[r].wb[w] ELSE <<>>]

\* codes of run r that were enqueued and whose store call has not returned
InFlight(r) == CodesIn(pool[r].chan) + CodesIn(HeldBatches(r))

EndsInGz(s) ==
    Len(s) >= 3 /\ s[Len(s) - 2] = "." /\ s[Len(s) - 1] = "g" /\ s[Len(s)] = "z"

\* the startup scan has dispatched the file name of directory dir
Scanned(dir, name, isAdd) ==
    \E i \in 1..Len(watch.log) :
        watch.log[i] = [by |-> "scan", event |-> 0, path |-> Join(dir, name),
                        isAdd |-> isAdd]

\* C26: no event is read before the startup scan has dispatched every *.gz
\* entry of add/ with is_add=true and of remove/ with is_add=false; every
\* later dispatch is for a create or rename event whose path ends in .gz,
\* one dispatch at most per event, with the path of the event.
C26_ScanFirstThenCreateOrRenameOfGz ==
    /\ watch.pc \in {"scan add", "scan remove"} => watch.events = <<>>
    /\ watch.pc \in {"loop", "returned"} =>
          /\ \A n \in watch.addFiles : EndsInGz(n) => Scanned(AddDir, n, TRUE)
          /\ \A n \in watch.removeFiles :
                EndsInGz(n) => Scanned(RemoveDir, n, FALSE)
    /\ \A i \in 1..Len(watch.log) :
          LET d == watch.log[i]
          IN  IF d.by = "scan"
              THEN /\ \A j \in 1..i : watch.log[j].by = "scan"
                   /\ EndsInGz(d.path)
                   /\ \E n \in (IF d.isAdd THEN watch.addFiles
                                ELSE watch.removeFiles) :
                         d.path = Join(IF d.isAdd THEN AddDir ELSE RemoveDir, n)
              ELSE /\ d.event \in 1..Len(watch.events)
                   /\ watch.events[d.event].op \cap {"Create", "Rename"} # {}
                   /\ EndsInGz(watch.events[d.event].name)
                   /\ d.path = watch.events[d.event].name
                   /\ \A j \in 1..Len(watch.log) :
                         watch.log[j].event = d.event => j = i

\* C26 witness: both directories held a .gz file at startup and both were
\* dispatched; then a write event on a .gz path was read without a dispatch
\* and a rename event on a .gz path of add/ was dispatched.
C26_Witness ==
    /\ Scanned(AddDir, <<"a", ".", "g", "z">>, TRUE)
    /\ Scanned(RemoveDir, <<"a", ".", "g", "z">>, FALSE)
    /\ Len(watch.events) = 2
    /\ watch.events[1].op = {"Write"} /\ EndsInGz(watch.events[1].name)
    /\ watch.events[2].op = {"Rename"}
    /\ Len(watch.log) = 3
    /\ watch.log[3].event = 2 /\ watch.log[3].isAdd

\* positions of the calls of operation op in a sequence of calls
CallsOf(calls, op) == {i \in 1..Len(calls) : calls[i].op = op}

\* C27: a coupon code that is not blank after trimming and whose trimmed
\* length is below 8 or above 10 gives the invalid-promo-code error with no
\* repository call at all; a code that is blank after trimming causes no
\* ValidateCouponCode call and the request is handled as one without a code.
C27_CouponLengthCheckedFirst ==
    order.called =>
        LET t == TrimSpace(order.req.coupon)
        IN  /\ (t # <<>> /\ (Len(t) < 8 \/ Len(t) > 10)) =>
                  /\ order.out.err = "invalid promo code"
                  /\ order.out.order = <<>>
                  /\ order.out.calls = <<>>
            /\ t = <<>> =>
                  /\ CallsOf(order.out.calls, "ValidateCouponCode") = {}
                  /\ order.out.err # "invalid promo code"
                  /\ order.out =
                        PlaceOrder([order.req EXCEPT !.coupon = <<>>],
                                   order.env)

\* C27 witness: a code of 7 characters between blanks (9 with them) was
\* refused although the coupon repository would have accepted it and the
\* items were in order.
C27_Witness ==
    /\ order.called
    /\ order.req.coupon = <<" ">> \o CodeOfLen(7) \o <<" ">>
    /\ order.env.coupon = "true"
    /\ Len(order.req.items) = 1
    /\ order.req.items[1] = [id |-> "p1", qty |-> 1]
    /\ order.env.product["p1"] = "found"
    /\ order.out.err = "invalid promo code"

\* every check of the request passes
ChecksPass(req, env) ==
    /\ TrimSpace(req.coupon) # <<>> =>
          (Len(TrimSpace(req.coupon)) \in 8..10 /\ env.coupon = "true")
    /\ \A i \in 1..Len(req.items) :
          /\ req.items[i].id # ""
          /\ req.items[i].qty > 0
          /\ env.product[req.items[i].id] = "found"

\* C28: the order repository is called exactly when every check passed,
\* once and as the last call, after ValidateCouponCode (when a code was
\* given) and one FindProductByID per item in the order of the items; when
\* a check fails or a repository returns an error the order returned is nil.
C28_PersistOnlyAfterAllChecks ==
    order.called =>
        LET calls == order.out.calls
            n == Len(calls)
            coupon == TrimSpace(order.req.coupon) # <<>>
            first == IF coupon THEN 1 ELSE 0
        IN  /\ CallsOf(calls, "PlaceOrder") # {}
                  <=> ChecksPass(order.req, order.env)
            /\ ChecksPass(order.req, order.env) =>
                  /\ CallsOf(calls, "PlaceOrder") = {n}
                  /\ n = first + Len(order.req.items) + 1
                  /\ coupon => calls[1].op = "ValidateCouponCode"
                  /\ \A i \in 1..Len(order.req.items) :
                        calls[first + i] =
                            [op |-> "FindProductByID",
                             arg |-> order.req.items[i].id]
            /\ ~ChecksPass(order.req, order.env) => order.out.order = <<>>
            /\ order.out.order # <<>> => order.out.err = "nil"

\* C28 witness: the coupon was accepted and the first item was found, the
\* second item has quantity 0: nil is returned and nothing was persisted.
C28_Witness ==
    /\ order.called
    /\ order.req.coupon = CodeOfLen(8)
    /\ order.env.coupon = "true"
    /\ Len(order.req.items) = 2
    /\ order.req.items[1] = [id |-> "p1", qty |-> 1]
    /\ order.env.product["p1"] = "found"
    /\ order.req.items[2].qty = 0
    /\ Len(order.out.calls) = 2
    /\ order.out.order = <<>>

\* the batches of a sequence, concatenated
RECURSIVE Flatten(_)
Flatten(batches) ==
    IF batches = <<>> THEN <<>> ELSE Head(batches) \o Flatten(Tail(batches))

\* the trimmed non-empty lines numbered from n on and above watermark k, in
\* file order
RECURSIVE LinesAfter(_, _)
LinesAfter(k, n) ==
    IF n > NumLines THEN <<>>
    ELSE IF n > k /\ TrimSpace(LineText(n)) # <<>>
         THEN <<[line |-> n, code |-> TrimSpace(LineText(n))]>>
                  \o LinesAfter(k, n + 1)
         ELSE LinesAfter(k, n + 1)

\* s is a prefix of t
IsPrefix(s, t) == Len(s) <= Len(t) /\ s = SubSeq(t, 1, Len(s))

\* the producer of the latest run has sent all it had to send
AllSent ==
    \/ hist.final = "completed"
    \/ h.run = hist.run /\ h.pc \in {"close", "wait"}

\* C29: the batches a run has enqueued, concatenated in enqueue order, are
\* the start of the trimmed non-empty lines above the watermark, in file
\* order, and all of them once the producer has sent everything; no batch is
\* empty or longer than the batch size, and every batch but the last one
\* enqueued has exactly batch size codes.
C29_BatchesAreTheLinesInOrder ==
    hist.run > 0 =>
        /\ IsPrefix(Flatten(hist.batches), LinesAfter(hist.resume, 1))
        /\ AllSent => Flatten(hist.batches) = LinesAfter(hist.resume, 1)
        /\ \A i \in 1..Len(hist.batches) :
              /\ Len(hist.batches[i]) \in 1..BatchSize
              /\ i < Len(hist.batches) => Len(hist.batches[i]) = BatchSize

\* C29 witness: a run without watermark has enqueued a full batch and a
\* shorter last one, the blank line left out, and has completed.
C29_Witness ==
    /\ hist.resume = 0
    /\ hist.final = "completed"
    /\ Len(hist.batches) = 2
    /\ Len(hist.batches[1]) = BatchSize
    /\ Len(hist.batches[2]) < BatchSize
    /\ Len(Flatten(hist.batches)) < NumLines

C31_NoEnqueueOnceErrorPublished ==
    [][(h.pc \in {"send", "flush"} /\ pool[h.run].err # <<>>)
          => hist'.batches = hist.batches]_vars


\* C32: every worker started for a run eventually exits, whatever way the
\* run ends (worker failure, scanner error, cancellation, clean end).
C32_EveryWorkerExits ==
    \A r \in 1..MaxRuns : \A w \in Workers :
        (r \in DOMAIN pool) ~> (r \in DOMAIN pool /\ pool[r].wpc[w] = "done")


\* C33: errorChan never holds more than one error; a worker whose store
\* call failed has returned, whether its error went into the channel or was
\* dropped because the slot was taken; the error the producer receives is
\* the first one published in the run.
C33_ErrorSlot ==
    /\ \A r \in DOMAIN pool : Len(pool[r].err) <= 1
    /\ hist.run \in DOMAIN pool =>
          /\ \A w \in Workers :
                (w = hist.pub \/ w \in hist.lost)
                    => pool[hist.run].wpc[w] = "done"
          /\ hist.lost # {} => hist.pub # 0 /\ hist.pub \notin hist.lost
          /\ hist.got # 0 => hist.got = hist.pub
          /\ \A i \in 1..Len(pool[hist.run].err) :
                pool[hist.run].err[i] \notin hist.lost

\* a second worker's error was dropped and the producer received the first
C33_Witness ==
    /\ hist.lost # {}
    /\ hist.got # 0
    /\ hist.got = hist.pub


\* C34: a ledger row is created as initiated and its status only goes
\* initiated -> completed, initiated -> failed, failed -> initiated; a
\* completed row is never changed, and no failed row becomes completed or
\* is written failed again without having been set to initiated.
C34_StatusTransitions ==
    [][/\ Len(ledger') >= Len(ledger)
       /\ \A i \in 1..Len(ledger') :
             IF i > Len(ledger)
             THEN ledger'[i].status = "initiated"
             ELSE \/ ledger'[i] = ledger[i]
                  \/ <<ledger[i].status, ledger'[i].status>> \in
                        {<<"initiated", "completed">>,
                         <<"initiated", "failed">>,
                         <<"failed", "initiated">>}]_vars


\* C35: a resumed run that ends failed again leaves a processed count that
\* is at least the watermark it resumed from.
C35_WatermarkNeverDecreases ==
    (/\ hist.resume > 0
     /\ hist.final = "failed"
     /\ hist.written
     /\ RowOfRun # 0)
        => ledger[RowOfRun].count >= hist.resume


C37_NoStoreCallWithoutRow ==
    \A r \in DOMAIN pool : \A w \in Workers :
        pool[r].wpc[w] = "call"
            => IsFileProcessed(ledger, pool[r].isAdd, pool[r].file) # 0


\* C38: executions of handleGzFile never overlap: at most one run has a
\* handleGzFile call that has not returned, it is the run the handler is
\* in, and no two such runs are of the same (is_add, file_name).
C38_OneHandlerAtATime ==
    /\ Cardinality({r \in DOMAIN pool : pool[r].prod}) <= 1
    /\ \A r \in DOMAIN pool :
          pool[r].prod => (r = h.run /\ h.pc \notin {"idle", "stopped"})
    /\ \A r, q \in DOMAIN pool :
          (pool[r].prod /\ pool[q].prod
             /\ pool[r].isAdd = pool[q].isAdd /\ pool[r].file = pool[q].file)
              => r = q

\* a second run is under way while workers of the first, whose
\* handleGzFile call has returned, have not exited
C38_Witness ==
    /\ Len(pool) = 2
    /\ pool[2].prod
    /\ ~pool[1].prod
    /\ \E w \in Workers : pool[1].wpc[w] # "done"


\* path names an entry that sits directly in directory dir
InDir(path, dir) ==
    /\ Len(path) > Len(dir) + 1
    /\ SubSeq(path, 1, Len(dir) + 1) = dir \o <<"/">>
    /\ \A i \in (Len(dir) + 2)..Len(path) : path[i] # "/"

\* C39: for every data directory, a file dispatched from an event is passed
\* with is_add true exactly when it sits in the add/ directory of the data
\* directory, and with is_add false exactly when it sits in its remove/
\* directory.
C39_IsAddFromDirectory ==
    \A i \in 1..Len(watch.log) :
        LET d == watch.log[i]
        IN  /\ d.isAdd <=> InDir(d.path, AddDirOf(watch.root))
            /\ ~d.isAdd <=> InDir(d.path, RemoveDirOf(watch.root))


\* C40: once the context is cancelled the producer enqueues no further
\* batch, and no worker starts a store call for a batch it holds.
C40_NothingStartsAfterCancel ==
    [][cancelled =>
          /\ hist'.run = hist.run => hist'.batches = hist.batches
          /\ \A r \in DOMAIN pool : \A w \in Workers :
                (r \in DOMAIN pool' /\ pool[r].wpc[w] # "call")
                    => pool'[r].wpc[w] # "call"]_vars

====
